---------------------------- MODULE Spec2Model ----------------------------
(***************************************************************************)
(* Verification model of the Oraculo retrieval-augmented generation core:  *)
(* the chunker (modules/text_processor.py), the indexing pipeline and the  *)
(* query orchestrator (modules/oracle_system.py) over the vector store     *)
(* (modules/vector_store.py), the embedding generator                      *)
(* (modules/embedding_generator.py) and the generation backends            *)
(* (modules/llm.py).                                                       *)
(*                                                                         *)
(* Text is a sequence of one-character strings.  Python indices are        *)
(* 0-based; the operators below keep Python's index values and translate   *)
(* to TLA+'s 1-based sequences only when a character is read.              *)
(***************************************************************************)
EXTENDS Integers, Sequences, FiniteSets, TLC

(***************************************************************************)
(* Bounds of the chunker specification.                                    *)
(***************************************************************************)
MaxTextLen == 7
MaxChunkSize == 6
MaxOverlap == 3
MaxIter == 8

Whitespace == {" ", "\n"}
Alphabet == {"a", " ", "\n"}

VARIABLES
    \* TextProcessor instance and one create_chunks call
    chunk_size, chunk_overlap, raw, text, pc, start, chunk_index, chunks,
    spans, iter,
    \* OracleSystem instance
    llm,            \* the generation backend bound by __init__
    collection,     \* the entries of the Chroma collection, by id number
    live,           \* whether VectorStore.collection names an existing collection
    op,             \* the last handler call: its arguments and how it ended
    before,         \* the collection's entries when that call began
    calls,          \* how often that call invoked each collaborator
    relevant_docs,  \* the hits the last query() retrieved
    response,       \* the value the last query() returned
    prompt,         \* the prompt the last query() handed to the backend
    \* OracleAPI over the same OracleSystem
    api             \* the request each server thread is handling, and where

chunkerVars == <<chunk_size, chunk_overlap, raw, text, pc, start,
                 chunk_index, chunks, spans, iter>>

systemVars == <<llm, collection, live, op, before, calls, relevant_docs,
                response, prompt, api>>

vars == <<chunkerVars, systemVars>>

-----------------------------------------------------------------------------
(***************************************************************************)
(* Python string primitives.                                               *)
(***************************************************************************)

\* A slice bound as Python normalises it for a string of length n.
NormIdx(i, n) ==
    IF i < 0 THEN (IF i + n < 0 THEN 0 ELSE i + n)
    ELSE (IF i > n THEN n ELSE i)

\* s[i:j]
Slice(s, i, j) ==
    LET lo == NormIdx(i, Len(s))
        hi == NormIdx(j, Len(s))
    IN  IF lo < hi THEN SubSeq(s, lo + 1, hi) ELSE << >>

\* s.rfind(c, i, j) for a one-character c: the highest index in the
\* normalised range [i, j) holding c, or -1.
RFind(s, c, i, j) ==
    LET lo == NormIdx(i, Len(s))
        hi == NormIdx(j, Len(s))
        hits == {k \in lo .. (hi - 1) : s[k + 1] = c}
    IN  IF hits = {} THEN -1
        ELSE CHOOSE k \in hits : \A m \in hits : m <= k

\* s.strip()
Strip(s) ==
    LET solid == {k \in 1 .. Len(s) : s[k] \notin Whitespace}
    IN  IF solid = {} THEN << >>
        ELSE LET first == CHOOSE k \in solid : \A m \in solid : k <= m
                 last == CHOOSE k \in solid : \A m \in solid : m <= k
             IN  SubSeq(s, first, last)

\* re.sub(r'\s+', ' ', s): every maximal run of whitespace becomes one space.
RECURSIVE CollapseFrom(_, _)
CollapseFrom(s, k) ==
    IF k > Len(s) THEN << >>
    ELSE IF s[k] \in Whitespace
         THEN IF k > 1 /\ s[k - 1] \in Whitespace
              THEN CollapseFrom(s, k + 1)
              ELSE <<" ">> \o CollapseFrom(s, k + 1)
         ELSE <<s[k]>> \o CollapseFrom(s, k + 1)

\* clean_text without its strip().
clean_text_unstripped(s) == CollapseFrom(s, 1)

\* TextProcessor.clean_text
clean_text(s) == Strip(CollapseFrom(s, 1))

-----------------------------------------------------------------------------
(***************************************************************************)
(* TextProcessor.create_chunks.                                            *)
(***************************************************************************)

Chunk(t, metadata, idx) ==
    [text |-> t, metadata |-> metadata, chunk_index |-> idx]

\* Window cutting an unsnapped window one character past its right edge.
Window_past_edge(t, size, overlap, s) ==
    LET raw_end == s + size
        last_space == RFind(t, " ", s, raw_end)
        end == IF raw_end < Len(t) /\ last_space > s THEN last_space
               ELSE raw_end + 1
    IN  [end |-> end,
         piece |-> Strip(Slice(t, s, end)),
         next |-> end - overlap]

\* One pass through the body of the while loop, from the window start s.
\* end is the slice bound used, piece the stripped slice, next the start
\* computed for the following pass.
Window(t, size, overlap, s) ==
    LET raw_end == s + size
        last_space == RFind(t, " ", s, raw_end)
        end == IF raw_end < Len(t) /\ last_space > s THEN last_space
               ELSE raw_end
    IN  [end |-> end,
         piece |-> Strip(Slice(t, s, end)),
         next |-> end - overlap]

\* The loop from window start s with the chunks gathered so far, run for at
\* most fuel passes; done tells whether the loop left within them.
RECURSIVE ChunkLoop(_, _, _, _, _, _, _)
ChunkLoop(t, metadata, size, overlap, s, acc, fuel) ==
    IF fuel = 0 THEN [chunks |-> acc, done |-> FALSE]
    ELSE LET w == Window(t, size, overlap, s)
             acc2 == IF w.piece # << >>
                     THEN Append(acc, Chunk(w.piece, metadata, Len(acc)))
                     ELSE acc
         IN  IF w.next >= Len(t)
             THEN [chunks |-> acc2, done |-> TRUE]
             ELSE ChunkLoop(t, metadata, size, overlap, w.next, acc2, fuel - 1)

\* create_chunks as a function of its input.
create_chunks(content, metadata, size, overlap, fuel) ==
    LET t == clean_text(content)
    IN  IF Len(t) <= size
        THEN [chunks |-> <<Chunk(t, metadata, 0)>>, done |-> TRUE]
        ELSE ChunkLoop(t, metadata, size, overlap, 0, << >>, fuel)

\* metadata or {} for a call that passes no metadata.
NoMetadata == << >>

\* The call counters of a handler that has called nothing yet.
NoCalls ==
    [stats |-> 0, clear |-> 0, load |-> 0, chunker |-> 0, embed_batch |-> 0,
     add |-> 0, embed |-> 0, search |-> 0, prompt |-> 0, generate |-> 0]

-----------------------------------------------------------------------------
(***************************************************************************)
(* The OracleSystem: indexing pipeline and query orchestrator.             *)
(*                                                                         *)
(* Scaled stand-ins for the program's sizes, so that documents of a few    *)
(* characters span several chunks and a few chunks span several write      *)
(* batches: OracleChunkSize and OracleChunkOverlap stand for the 500 and   *)
(* 50 of oracle_system.py line 55, BatchSize for the 100 of                *)
(* vector_store.py line 89.                                                *)
(***************************************************************************)
OracleChunkSize == 4
OracleChunkOverlap == 1
BatchSize == 2
MaxResults == 3
\* Stand-ins for the 2500 of llm.py line 377 and the 200 of llm.py line 429.
ContextBudget == 6
SimpleExcerpt == 2

NOT_INDEXED == "[ERRO] Nenhum documento indexado. Execute index_documents() primeiro."
NO_MATCH == "[ERRO] Nao encontrei documentos relevantes para sua pergunta."
APOLOGY == "Desculpe, ocorreu um erro ao gerar a resposta."
\* SimpleLLM's fixed answer (its accented letter written plain).
SIMPLE_ANSWER == "Esta e uma resposta de teste. Configure um modelo LLM real para respostas completas."
SOURCES_HEADER == "\n\n[FONTES CONSULTADAS]\n"
\* Whatever text the model generated, stripped.
GENERATED == "<generated text>"

\* The files the training folder may hold, and what the extractor reads
\* from each.
FileNames == {"a.pdf", "b.pdf"}
FileContent(f) ==
    IF f = "a.pdf" THEN <<"a", "b", "c", "d", "e", "f">>
    ELSE <<"g", "\n", " ", "h">>
Document(f) == [filename |-> f, content |-> FileContent(f), path |-> <<"training/", f>>]

Questions == {"q1"}

Range(q) == {q[i] : i \in DOMAIN q}

\* Sequences without repetition over S, of length at most n.
RECURSIVE InjSeqsUpTo(_, _)
InjSeqsUpTo(S, n) ==
    IF n = 0 THEN {<< >>}
    ELSE LET shorter == InjSeqsUpTo(S, n - 1)
             longest == {x \in shorter : Len(x) = n - 1}
         IN  shorter \cup
             UNION {{Append(q, c) : c \in S \ Range(q)} : q \in longest}

\* DocumentLoader.load_all_documents: the files that are present and whose
\* extraction gave text, in directory order.
Corpora == {[i \in DOMAIN q |-> Document(q[i])] :
                q \in InjSeqsUpTo(FileNames, Cardinality(FileNames))}

\* The Embedding Service's vector for a text.
Embedding(t) == <<"vec", t>>
\* np.array([]), and the [] of a failed batch.
EmptyVector == << >>

\* f"doc_{i}"
DocId(i) == <<"doc_", i>>

\* collection.count()
Count(coll) == Cardinality(DOMAIN coll)

\* VectorStore.get_collection_stats: {} when count() raises.
get_collection_stats(coll, isLive, fails) ==
    IF fails \/ ~isLive THEN [failed |-> TRUE, total_documents |-> 0]
    ELSE [failed |-> FALSE, total_documents |-> Count(coll)]

\* VectorStore.clear_collection with the outcome of its two client calls:
\* "ok", "delete_failed" (delete_collection raised) or "create_failed"
\* (create_collection raised after the delete).  Either exception is logged
\* and swallowed.  Deleting through a handle that names no collection raises.
clear_collection(coll, isLive, outcome) ==
    IF ~isLive \/ outcome = "delete_failed"
    THEN [collection |-> coll, live |-> isLive]
    ELSE IF outcome = "create_failed"
    THEN [collection |-> << >>, live |-> FALSE]
    ELSE [collection |-> << >>, live |-> TRUE]

\* process_documents putting each document's chunks in front of the ones
\* gathered so far.
RECURSIVE process_documents_prepending(_, _, _)
process_documents_prepending(documents, size, overlap) ==
    IF documents = << >> THEN [chunks |-> << >>, done |-> TRUE]
    ELSE LET doc == Head(documents)
             metadata == [filename |-> doc.filename, path |-> doc.path]
             one == create_chunks(doc.content, metadata, size, overlap, MaxIter)
             rest == process_documents_prepending(Tail(documents), size, overlap)
         IN  [chunks |-> rest.chunks \o one.chunks,
              done |-> one.done /\ rest.done]

\* TextProcessor.process_documents
RECURSIVE process_documents(_, _, _)
process_documents(documents, size, overlap) ==
    IF documents = << >> THEN [chunks |-> << >>, done |-> TRUE]
    ELSE LET doc == Head(documents)
             metadata == [filename |-> doc.filename, path |-> doc.path]
             one == create_chunks(doc.content, metadata, size, overlap, MaxIter)
             rest == process_documents(Tail(documents), size, overlap)
         IN  [chunks |-> one.chunks \o rest.chunks,
              done |-> one.done /\ rest.done]

\* generate_embeddings_batch answering a failure with one empty vector for
\* each text.
generate_embeddings_batch_padded(texts, fails) ==
    [i \in DOMAIN texts |-> IF fails THEN EmptyVector ELSE Embedding(texts[i])]

\* EmbeddingGenerator.generate_embeddings_batch: [] when encode raises.
generate_embeddings_batch(texts, fails) ==
    IF fails THEN << >> ELSE [i \in DOMAIN texts |-> Embedding(texts[i])]

\* EmbeddingGenerator.generate_embedding: an empty array when encode raises.
generate_embedding(t, fails) == IF fails THEN EmptyVector ELSE Embedding(t)

\* list[i:j] for 0 <= i <= j
ListSlice(q, i, j) == Slice(q, i, j)

\* collection.add of one batch: Chroma rejects a batch whose lists differ in
\* length, and ignores a record whose id the collection already holds.
CollectionAdd(coll, ids, documents, metadatas, embeddings) ==
    IF Len(embeddings) # Len(ids) \/ Len(documents) # Len(ids)
    THEN [collection |-> coll, raised |-> TRUE]
    ELSE [collection |->
              coll @@ [id \in Range(ids) |->
                          LET k == CHOOSE i \in DOMAIN ids : ids[i] = id
                          IN  [document |-> documents[k],
                               metadata |-> metadatas[k],
                               embedding |-> embeddings[k]]],
          raised |-> FALSE]

\* AddBatches slicing the embeddings of every batch from the front of the
\* list.
RECURSIVE AddBatches_front_embeddings(_, _, _, _, _, _, _, _, _)
AddBatches_front_embeddings(coll, isLive, ids, documents, metadatas, embeddings, i, failAt, made) ==
    IF i >= Len(ids) THEN [collection |-> coll, raised |-> FALSE, adds |-> made]
    ELSE LET end_idx == IF i + BatchSize < Len(ids) THEN i + BatchSize ELSE Len(ids)
             r == CollectionAdd(coll, ListSlice(ids, i, end_idx),
                                ListSlice(documents, i, end_idx),
                                ListSlice(metadatas, i, end_idx),
                                ListSlice(embeddings, 0, end_idx - i))
         IN  IF ~isLive \/ failAt = made + 1 \/ r.raised
             THEN [collection |-> coll, raised |-> TRUE, adds |-> made + 1]
             ELSE AddBatches_front_embeddings(r.collection, isLive, ids, documents,
                                              metadatas, embeddings, i + BatchSize,
                                              failAt, made + 1)

\* VectorStore.add_documents, the loop over batches from offset i; failAt is
\* the batch (counted from 1) whose collection.add raises, 0 for none.
RECURSIVE AddBatches(_, _, _, _, _, _, _, _, _)
AddBatches(coll, isLive, ids, documents, metadatas, embeddings, i, failAt, made) ==
    IF i >= Len(ids) THEN [collection |-> coll, raised |-> FALSE, adds |-> made]
    ELSE LET end_idx == IF i + BatchSize < Len(ids) THEN i + BatchSize ELSE Len(ids)
             r == CollectionAdd(coll, ListSlice(ids, i, end_idx),
                                ListSlice(documents, i, end_idx),
                                ListSlice(metadatas, i, end_idx),
                                ListSlice(embeddings, i, end_idx))
         IN  IF ~isLive \/ failAt = made + 1 \/ r.raised
             THEN [collection |-> coll, raised |-> TRUE, adds |-> made + 1]
             ELSE AddBatches(r.collection, isLive, ids, documents, metadatas,
                             embeddings, i + BatchSize, failAt, made + 1)

\* add_documents, lines 75-83: the ids, documents and metadatas lists.
EntryIds(chunkList) == [i \in DOMAIN chunkList |-> DocId(i - 1)]
EntryDocuments(chunkList) == [i \in DOMAIN chunkList |-> chunkList[i].text]
EntryMetadatas(chunkList) ==
    [i \in DOMAIN chunkList |->
        [filename |-> chunkList[i].metadata.filename,
         chunk_index |-> chunkList[i].chunk_index]]

\* VectorStore.add_documents
add_documents(coll, isLive, chunkList, embeddings, failAt) ==
    LET ids == EntryIds(chunkList)
        documents == EntryDocuments(chunkList)
        metadatas == EntryMetadatas(chunkList)
        r == AddBatches(coll, isLive, ids, documents, metadatas, embeddings, 0, failAt, 0)
    IN  [collection |-> r.collection, raised |-> r.raised, adds |-> r.adds,
         \* whether a collection.add was handed an id the collection held
         clash |-> Range(ListSlice(ids, 0, r.adds * BatchSize)) \cap DOMAIN coll # {}]

\* The value index_documents leaves behind: the collection, the call
\* counters, how the call ended ("returned", "raised", or "hung" when the
\* chunker's loop does not end), and whether add_documents was handed an id
\* the collection held.
IndexResult(coll, isLive, callLog, outcome) ==
    [collection |-> coll, live |-> isLive, calls |-> callLog, outcome |-> outcome,
     id_clash |-> FALSE]

\* index_documents, lines 134-149: embed the chunks and write them.
IndexWrite(coll, isLive, callLog, chunkList, embedFail, failAt) ==
    LET texts == [i \in DOMAIN chunkList |-> chunkList[i].text]
        embeddings == generate_embeddings_batch(texts, embedFail)
        added == add_documents(coll, isLive, chunkList, embeddings, failAt)
    IN  [IndexResult(added.collection, isLive,
                     [callLog EXCEPT !.embed_batch = 1, !.add = added.adds,
                                     !.stats = IF added.raised THEN 1 ELSE 2],
                     IF added.raised THEN "raised" ELSE "returned")
            EXCEPT !.id_clash = added.clash]

\* IndexLoad without the test for no documents.
IndexLoad_unchecked(coll, isLive, callLog, documents, embedFail, failAt) ==
    IndexWrite(coll, isLive, [callLog EXCEPT !.load = 1, !.chunker = 1],
               process_documents(documents, chunk_size, chunk_overlap).chunks,
               embedFail, failAt)

\* index_documents, lines 122-132: load the documents and chunk them.
IndexLoad(coll, isLive, callLog, documents, embedFail, failAt) ==
    IF documents = << >>
    THEN IndexResult(coll, isLive, [callLog EXCEPT !.load = 1], "returned")
    ELSE LET processed == process_documents(documents, chunk_size, chunk_overlap)
         IN  IF ~processed.done
             THEN IndexResult(coll, isLive,
                              [callLog EXCEPT !.load = 1, !.chunker = 1], "hung")
             ELSE IndexWrite(coll, isLive,
                             [callLog EXCEPT !.load = 1, !.chunker = 1],
                             processed.chunks, embedFail, failAt)

\* index_documents, lines 118-120: the clear of a forced reindex.
IndexClear(coll, isLive, callLog, clearOutcome, documents, embedFail, failAt) ==
    LET cleared == clear_collection(coll, isLive, clearOutcome)
    IN  IndexLoad(cleared.collection, cleared.live,
                  [callLog EXCEPT !.clear = 1], documents, embedFail, failAt)

\* OracleSystem.index_documents.  The inputs besides force_reindex are what
\* the collaborators do during the call: whether count() raises, how the
\* clear ends, what the extractor loads, whether the batch embedding raises
\* and which write batch raises.
index_documents(coll, isLive, force_reindex, statsFail, clearOutcome, documents, embedFail, failAt) ==
    IF get_collection_stats(coll, isLive, statsFail).total_documents > 0
       /\ ~force_reindex
    THEN IndexResult(coll, isLive, [NoCalls EXCEPT !.stats = 1], "returned")
    ELSE IF force_reindex
    THEN IndexClear(coll, isLive, [NoCalls EXCEPT !.stats = 1], clearOutcome,
                    documents, embedFail, failAt)
    ELSE IndexLoad(coll, isLive, [NoCalls EXCEPT !.stats = 1], documents,
                   embedFail, failAt)

\* The rankings collection.query may hand back for n_results = n: the ids
\* of min(n, count) different entries, in the backend's order.
Rankings(coll, n) ==
    LET m == IF n < Count(coll) THEN n ELSE Count(coll)
    IN  {r \in InjSeqsUpTo(DOMAIN coll, m) : Len(r) = m}

\* The distance the backend reports between the query vector and an entry:
\* entry doc_i lies at distance i.
Distance(query_embedding, id) == id[2]

\* VectorStore.search: the hits in the order the backend returned them; []
\* when collection.query raises, which it does for an empty query vector.
search(coll, isLive, query_embedding, ranking, fails) ==
    IF fails \/ ~isLive \/ query_embedding = EmptyVector THEN << >>
    ELSE [i \in DOMAIN ranking |->
             [text |-> coll[ranking[i]].document,
              metadata |-> coll[ranking[i]].metadata,
              distance |-> Distance(query_embedding, ranking[i])]]

\* generate of the bound backend: GPT4AllLLM and LocalLLM turn a failure
\* into the apology, SimpleLLM answers with its fixed text.
generate(backend, fails) ==
    IF backend = "SimpleLLM" THEN SIMPLE_ANSWER
    ELSE IF fails THEN APOLOGY ELSE GENERATED

ELLIPSIS == <<".", ".", ".">>
PARAGRAPH == <<"\n", "\n">>
NEWLINE == <<"\n">>

\* sep.join(parts) for a list of texts.
RECURSIVE Join(_, _)
Join(parts, sep) ==
    IF parts = << >> THEN << >>
    ELSE IF Len(parts) = 1 THEN parts[1]
    ELSE parts[1] \o sep \o Join(Tail(parts), sep)

\* The number of characters of a text whose elements are strings.
RECURSIVE CharLen(_)
CharLen(t) == IF t = << >> THEN 0 ELSE Len(Head(t)) + CharLen(Tail(t))

\* GroupByFile that files every hit under a group of its own.
RECURSIVE GroupByFile_per_hit(_, _, _)
GroupByFile_per_hit(docs, k, docs_by_file) ==
    IF k > Len(docs) THEN docs_by_file
    ELSE GroupByFile_per_hit(docs, k + 1,
             Append(docs_by_file,
                    [filename |-> docs[k].metadata.filename,
                     texts |-> <<docs[k].text>>]))

\* GPT4AllLLM.create_prompt_with_context, lines 363-370: docs_by_file after
\* the hits from k on are filed, as the dict's items in insertion order.
RECURSIVE GroupByFile(_, _, _)
GroupByFile(docs, k, docs_by_file) ==
    IF k > Len(docs) THEN docs_by_file
    ELSE LET filename == docs[k].metadata.filename
             known == {g \in DOMAIN docs_by_file : docs_by_file[g].filename = filename}
         IN  IF known = {}
             THEN GroupByFile(docs, k + 1,
                      Append(docs_by_file,
                             [filename |-> filename, texts |-> <<docs[k].text>>]))
             ELSE LET g == CHOOSE g \in known : TRUE
                  IN  GroupByFile(docs, k + 1,
                          [docs_by_file EXCEPT ![g].texts = Append(@, docs[k].text)])

\* combined_text without the budget.
CombinedText_unlimited(texts) == Join(texts, PARAGRAPH)

\* Lines 375-378: the texts of one file joined, cut to the budget.
CombinedText(texts) ==
    LET combined_text == Join(texts, PARAGRAPH)
    IN  IF Len(combined_text) > ContextBudget
        THEN Slice(combined_text, 0, ContextBudget) \o ELLIPSIS
        ELSE combined_text

\* f"=== {filename} ===\n"
GroupHeader(filename) ==
    <<"=", "=", "=", " ", filename, " ", "=", "=", "=", "\n">>

\* The prompt of a backend: which template it fills, the question, the
\* context put into the template, and the parts the context was joined from.
Prompt(template, question, parts, sep) ==
    [template |-> template, question |-> question, parts |-> parts,
     context |-> Join([i \in DOMAIN parts |-> parts[i].header \o parts[i].body], sep)]

NoPrompt == Prompt("none", "", << >>, << >>)

\* GPT4AllLLM.create_prompt_with_context
GPT4All_create_prompt_with_context(question, context_documents) ==
    LET docs_by_file == GroupByFile(context_documents, 1, << >>)
    IN  Prompt("GPT4AllLLM", question,
               [g \in DOMAIN docs_by_file |->
                   [filename |-> docs_by_file[g].filename,
                    header |-> GroupHeader(docs_by_file[g].filename),
                    body |-> CombinedText(docs_by_file[g].texts)]],
               PARAGRAPH)

\* LocalLLM.create_prompt_with_context: one part per hit, nothing cut.
Local_create_prompt_with_context(question, context_documents) ==
    Prompt("LocalLLM", question,
           [i \in DOMAIN context_documents |->
               [filename |-> context_documents[i].metadata.filename,
                header |-> <<"[Fonte ", ToString(i), ": ",
                             context_documents[i].metadata.filename, "]\n">>,
                body |-> context_documents[i].text \o NEWLINE]],
           NEWLINE)

\* SimpleLLM.create_prompt_with_context: the head of each hit's text.
Simple_create_prompt_with_context(question, context_documents) ==
    Prompt("SimpleLLM", question,
           [i \in DOMAIN context_documents |->
               [filename |-> context_documents[i].metadata.filename,
                header |-> << >>,
                body |-> Slice(context_documents[i].text, 0, SimpleExcerpt)
                         \o ELLIPSIS]],
           PARAGRAPH)

\* self.llm.create_prompt_with_context of the bound backend.
create_prompt_with_context(backend, question, context_documents) ==
    IF backend = "GPT4AllLLM"
    THEN GPT4All_create_prompt_with_context(question, context_documents)
    ELSE IF backend = "LocalLLM"
    THEN Local_create_prompt_with_context(question, context_documents)
    ELSE Simple_create_prompt_with_context(question, context_documents)

\* f"  - {filename}\n"
SourceLine(filename) == <<"  - ", filename, "\n">>

\* The source list without the seen_files test: one line per hit.
RECURSIVE SourceLines_every_hit(_, _, _)
SourceLines_every_hit(docs, k, seen_files) ==
    IF k > Len(docs) THEN << >>
    ELSE <<SourceLine(docs[k].metadata.filename)>>
         \o SourceLines_every_hit(docs, k + 1, seen_files)

\* The loop of query() that builds the source list, from hit k on.
RECURSIVE SourceLines(_, _, _)
SourceLines(docs, k, seen_files) ==
    IF k > Len(docs) THEN << >>
    ELSE LET filename == docs[k].metadata.filename
         IN  IF filename \notin seen_files
             THEN <<SourceLine(filename)>>
                  \o SourceLines(docs, k + 1, seen_files \cup {filename})
             ELSE SourceLines(docs, k + 1, seen_files)

\* What query() hands back, with the call counters, the hits it retrieved
\* and whether its generation call failed.
QueryResult(resp, callLog, docs, genFailed, builtPrompt) ==
    [response |-> resp, calls |-> callLog, docs |-> docs, gen_failed |-> genFailed,
     prompt |-> builtPrompt]

\* QueryAnswer calling generate a second time after a failed call.
QueryAnswer_retrying(backend, question, docs, show_sources, genFail, callLog) ==
    QueryResult(IF show_sources
                THEN <<generate(backend, genFail), SOURCES_HEADER>>
                     \o SourceLines(docs, 1, {})
                ELSE <<generate(backend, genFail)>>,
                [callLog EXCEPT !.prompt = 1,
                                !.generate = IF backend # "SimpleLLM" /\ genFail
                                             THEN 2 ELSE 1],
                docs,
                backend # "SimpleLLM" /\ genFail,
                create_prompt_with_context(backend, question, docs))

\* query, lines 187-216: prompt, generation, and the source list appended to
\* whatever generate returned.
QueryAnswer(backend, question, docs, show_sources, genFail, callLog) ==
    QueryResult(IF show_sources
                THEN <<generate(backend, genFail), SOURCES_HEADER>>
                     \o SourceLines(docs, 1, {})
                ELSE <<generate(backend, genFail)>>,
                [callLog EXCEPT !.prompt = 1, !.generate = 1],
                docs,
                backend # "SimpleLLM" /\ genFail,
                create_prompt_with_context(backend, question, docs))

\* QueryRetrieve without the test for no hits.
QueryRetrieve_unchecked(backend, coll, isLive, question, show_sources, embedFail, ranking, queryFail, genFail, callLog) ==
    QueryAnswer(backend, question,
                search(coll, isLive, generate_embedding(question, embedFail),
                       ranking, queryFail),
                show_sources, genFail,
                [callLog EXCEPT !.embed = 1, !.search = 1])

\* query, lines 173-182: embed the question, search, and stop at no hits.
QueryRetrieve(backend, coll, isLive, question, show_sources, embedFail, ranking, queryFail, genFail, callLog) ==
    LET docs == search(coll, isLive, generate_embedding(question, embedFail),
                       ranking, queryFail)
    IN  IF docs = << >>
        THEN QueryResult(<<NO_MATCH>>,
                         [callLog EXCEPT !.embed = 1, !.search = 1], docs, FALSE,
                         NoPrompt)
        ELSE QueryAnswer(backend, question, docs, show_sources, genFail,
                         [callLog EXCEPT !.embed = 1, !.search = 1])

\* query without the test for an empty index.
query_ungated(backend, coll, isLive, question, n_results, show_sources, statsFail, embedFail, ranking, queryFail, genFail) ==
    QueryRetrieve(backend, coll, isLive, question, show_sources, embedFail,
                  ranking, queryFail, genFail, [NoCalls EXCEPT !.stats = 1])

\* OracleSystem.query.  The inputs besides the three arguments are what the
\* collaborators do during the call: whether count() raises, whether the
\* question's embedding fails, the ranking the Index answers with, whether
\* its query raises, and whether the generation call fails.
query(backend, coll, isLive, question, n_results, show_sources, statsFail, embedFail, ranking, queryFail, genFail) ==
    IF get_collection_stats(coll, isLive, statsFail).total_documents = 0
    THEN QueryResult(<<NOT_INDEXED>>, [NoCalls EXCEPT !.stats = 1], << >>, FALSE,
                     NoPrompt)
    ELSE QueryRetrieve(backend, coll, isLive, question, show_sources, embedFail,
                       ranking, queryFail, genFail, [NoCalls EXCEPT !.stats = 1])

\* ConstructLLM going from a failed GPT4AllLLM straight to SimpleLLM.
ConstructLLM_skipping_local(use_simple_llm, use_gpt4all, model_found, gptFails, localFails) ==
    IF use_simple_llm THEN "SimpleLLM"
    ELSE IF use_gpt4all
    THEN IF ~gptFails THEN "GPT4AllLLM" ELSE "SimpleLLM"
    ELSE IF model_found /\ ~localFails THEN "LocalLLM" ELSE "SimpleLLM"

\* OracleSystem.__init__, lines 59-96: the backend bound for the flags and
\* for which constructors raise.
ConstructLLM(use_simple_llm, use_gpt4all, model_found, gptFails, localFails) ==
    IF use_simple_llm THEN "SimpleLLM"
    ELSE IF use_gpt4all
    THEN IF ~gptFails THEN "GPT4AllLLM"
         ELSE IF model_found /\ ~localFails THEN "LocalLLM" ELSE "SimpleLLM"
    ELSE IF model_found /\ ~localFails THEN "LocalLLM" ELSE "SimpleLLM"

NoOp ==
    [name |-> "none", force_reindex |-> FALSE, clear |-> "none",
     documents |-> << >>, question |-> "", n_results |-> 0, show_sources |-> FALSE,
     stats_failed |-> FALSE, embed_failed |-> FALSE, search_failed |-> FALSE,
     gen_failed |-> FALSE, id_clash |-> FALSE, outcome |-> "returned",
     use_simple_llm |-> FALSE, use_gpt4all |-> FALSE, model_found |-> FALSE,
     gpt4all_raises |-> FALSE, local_raises |-> FALSE]

\* The threads of the Flask development server: app.run() serves every
\* request in a thread of its own.
Requests == {1, 2}

\* A server thread that is handling no request.
NoRequest ==
    [kind |-> "none", pc |-> "idle", force_reindex |-> FALSE,
     documents |-> << >>, embed_failed |-> FALSE, next |-> 0,
     n_results |-> 0, show_sources |-> FALSE, response |-> << >>,
     sources |-> 0, status |-> 0]

\* self.llm before __init__ has bound a backend.
Unbound == "unbound"

\* OracleSystem.__init__ at line 59, over an empty vector store: the
\* components are built, the backend is not bound yet.
Init ==
    /\ chunk_size = OracleChunkSize
    /\ chunk_overlap = OracleChunkOverlap
    /\ raw = << >>
    /\ text = << >>
    /\ pc = "idle"
    /\ start = 0
    /\ chunk_index = 0
    /\ chunks = << >>
    /\ spans = << >>
    /\ iter = 0
    /\ llm = Unbound
    /\ collection = << >>
    /\ live = TRUE
    /\ op = NoOp
    /\ before = << >>
    /\ calls = NoCalls
    /\ relevant_docs = << >>
    /\ response = << >>
    /\ prompt = NoPrompt
    /\ api = [r \in Requests |-> NoRequest]

\* OracleSystem.__init__, lines 59-96: the backend is chosen and bound.  The
\* inputs are the two flags, whether model_path names an existing file, and
\* whether the constructors of GPT4AllLLM and of LocalLLM raise.
Construct ==
    /\ op.name = "none"
    /\ llm = Unbound
    /\ \E use_simple_llm, use_gpt4all, model_found, gptFails, localFails \in BOOLEAN :
         /\ llm' = ConstructLLM(use_simple_llm, use_gpt4all, model_found,
                                gptFails, localFails)
         /\ op' = [NoOp EXCEPT !.name = "__init__",
                               !.use_simple_llm = use_simple_llm,
                               !.use_gpt4all = use_gpt4all,
                               !.model_found = model_found,
                               !.gpt4all_raises = gptFails,
                               !.local_raises = localFails]
    /\ before' = collection
    /\ UNCHANGED <<collection, live, calls, relevant_docs, response, prompt,
                   api, chunkerVars>>

\* A call of index_documents(force_reindex).
IndexDocuments ==
    /\ op.name = "none"
    /\ llm # Unbound
    /\ \E force_reindex, statsFail, embedFail \in BOOLEAN,
          documents \in Corpora,
          failAt \in 0 .. 2 :
         \E clearOutcome \in IF force_reindex
                              THEN {"ok", "delete_failed", "create_failed"}
                              ELSE {"ok"} :
           LET r == index_documents(collection, live, force_reindex, statsFail,
                                    clearOutcome, documents, embedFail, failAt)
           IN  /\ collection' = r.collection
               /\ live' = r.live
               /\ calls' = r.calls
               /\ op' = [NoOp EXCEPT !.name = "index_documents",
                                     !.force_reindex = force_reindex,
                                     !.clear = IF force_reindex
                                               THEN clearOutcome ELSE "none",
                                     !.documents = documents,
                                     !.stats_failed = statsFail \/ ~live,
                                     !.embed_failed = embedFail
                                                      /\ r.calls.embed_batch = 1,
                                     !.id_clash = r.id_clash,
                                     !.outcome = r.outcome]
    /\ before' = collection
    /\ relevant_docs' = << >>
    /\ response' = << >>
    /\ prompt' = NoPrompt
    /\ UNCHANGED <<llm, api, chunkerVars>>

\* A call of query(question, n_results, show_sources).
Query ==
    /\ op.name = "none"
    /\ llm # Unbound
    /\ \E n_results \in 1 .. MaxResults :
         \E ranking \in Rankings(collection, n_results),
            question \in Questions,
            show_sources, statsFail, embedFail, queryFail, genFail \in BOOLEAN :
           LET r == query(llm, collection, live, question, n_results,
                          show_sources, statsFail, embedFail, ranking,
                          queryFail, genFail)
           IN  /\ response' = r.response
               /\ relevant_docs' = r.docs
               /\ prompt' = r.prompt
               /\ calls' = r.calls
               /\ op' = [NoOp EXCEPT !.name = "query",
                                     !.question = question,
                                     !.n_results = n_results,
                                     !.show_sources = show_sources,
                                     !.stats_failed = statsFail \/ ~live,
                                     !.embed_failed = embedFail /\ r.calls.embed = 1,
                                     !.search_failed = queryFail /\ ~embedFail
                                                       /\ r.calls.search = 1,
                                     !.gen_failed = r.gen_failed]
    /\ before' = collection
    /\ UNCHANGED <<llm, collection, live, api, chunkerVars>>

\* A call of get_stats().
GetStats ==
    /\ op.name = "none"
    /\ llm # Unbound
    /\ \E statsFail \in BOOLEAN :
           op' = [NoOp EXCEPT !.name = "get_stats",
                              !.stats_failed = statsFail \/ ~live]
    /\ calls' = [NoCalls EXCEPT !.stats = 1]
    /\ before' = collection
    /\ relevant_docs' = << >>
    /\ response' = << >>
    /\ prompt' = NoPrompt
    /\ UNCHANGED <<llm, collection, live, api, chunkerVars>>

\* The call is over: its caller has the result, and the system waits for the
\* next call.  A call that hangs in the chunker's loop never gets here.
Return ==
    /\ op.name # "none"
    /\ op.outcome # "hung"
    /\ op' = NoOp
    /\ before' = << >>
    /\ calls' = NoCalls
    /\ relevant_docs' = << >>
    /\ response' = << >>
    /\ prompt' = NoPrompt
    /\ UNCHANGED <<llm, collection, live, api, chunkerVars>>

Next == Construct \/ IndexDocuments \/ Query \/ GetStats \/ Return

Spec == Init /\ [][Next]_vars

(***************************************************************************)
(* The chunker on its own: one TextProcessor and one create_chunks call.   *)
(***************************************************************************)
RECURSIVE SeqsUpTo(_, _)
SeqsUpTo(S, n) ==
    IF n = 0 THEN {<< >>}
    ELSE LET shorter == SeqsUpTo(S, n - 1)
         IN  shorter \cup {Append(q, c) : q \in {x \in shorter : Len(x) = n - 1}, c \in S}

Texts == SeqsUpTo(Alphabet, MaxTextLen)

\* TextProcessor.__init__ stores both parameters as given.
InitChunker ==
    /\ chunk_size \in 1 .. MaxChunkSize
    /\ chunk_overlap \in 0 .. MaxOverlap
    /\ raw \in Texts
    /\ text = << >>
    /\ pc = "call"
    /\ start = 0
    /\ chunk_index = 0
    /\ chunks = << >>
    /\ spans = << >>
    /\ iter = 0
    /\ llm = "SimpleLLM"
    /\ collection = << >>
    /\ live = TRUE
    /\ op = NoOp
    /\ before = << >>
    /\ calls = NoCalls
    /\ relevant_docs = << >>
    /\ response = << >>
    /\ prompt = NoPrompt
    /\ api = [r \in Requests |-> NoRequest]

\* create_chunks, lines 70-79: the text fits one chunk.
SingleChunk ==
    /\ pc = "call"
    /\ Len(clean_text(raw)) <= chunk_size
    /\ text' = clean_text(raw)
    /\ chunks' = <<Chunk(clean_text(raw), NoMetadata, 0)>>
    /\ pc' = "done"
    /\ UNCHANGED <<chunk_size, chunk_overlap, raw, start, chunk_index, spans, iter>>
    /\ UNCHANGED systemVars

\* create_chunks, lines 70-84: the text needs the window loop.
EnterLoop ==
    /\ pc = "call"
    /\ Len(clean_text(raw)) > chunk_size
    /\ text' = clean_text(raw)
    /\ start' = 0
    /\ chunk_index' = 0
    /\ pc' = "loop"
    /\ UNCHANGED <<chunk_size, chunk_overlap, raw, chunks, spans, iter>>
    /\ UNCHANGED systemVars

\* create_chunks, lines 84-107: one pass of the loop.  spans records, for
\* each chunk appended, the slice bounds start and end it was cut with.
WindowStep ==
    /\ pc = "loop"
    /\ start < Len(text)
    /\ iter < MaxIter
    /\ LET w == Window(text, chunk_size, chunk_overlap, start)
       IN  /\ IF w.piece # << >>
              THEN /\ chunks' = Append(chunks, Chunk(w.piece, NoMetadata, chunk_index))
                   /\ chunk_index' = chunk_index + 1
                   /\ spans' = Append(spans, <<start, w.end>>)
              ELSE UNCHANGED <<chunks, chunk_index, spans>>
           /\ start' = w.next
           /\ pc' = IF w.next >= Len(text) THEN "done" ELSE "loop"
    /\ iter' = iter + 1
    /\ UNCHANGED <<chunk_size, chunk_overlap, raw, text>>
    /\ UNCHANGED systemVars

NextChunker == SingleChunk \/ EnterLoop \/ WindowStep

SpecChunker == InitChunker /\ [][NextChunker]_vars

(***************************************************************************)
(* The API server: OracleAPI's /index and /query handlers run by the       *)
(* server's threads over one OracleSystem.  A handler takes a step at each *)
(* call it makes on the vector store; what it computes between two such    *)
(* calls is local to its thread.                                           *)
(***************************************************************************)

\* The server with a GPT4AllLLM backend bound, before its first request.
InitAPI ==
    /\ chunk_size = OracleChunkSize
    /\ chunk_overlap = OracleChunkOverlap
    /\ raw = << >>
    /\ text = << >>
    /\ pc = "idle"
    /\ start = 0
    /\ chunk_index = 0
    /\ chunks = << >>
    /\ spans = << >>
    /\ iter = 0
    /\ llm = ConstructLLM(FALSE, TRUE, FALSE, FALSE, FALSE)
    /\ collection = << >>
    /\ live = TRUE
    /\ op = NoOp
    /\ before = << >>
    /\ calls = NoCalls
    /\ relevant_docs = << >>
    /\ response = << >>
    /\ prompt = NoPrompt
    /\ api = [r \in Requests |-> NoRequest]

\* A new request goes to the first thread that is free.
FirstFree(r) ==
    /\ api[r].kind = "none"
    /\ \A other \in Requests : other < r => api[other].kind # "none"

\* The thread of request r once index_documents has ended, normally or by
\* raising: its locals are gone, and the handler holds the status to answer.
IndexEnded(r, status) ==
    [NoRequest EXCEPT !.kind = "index", !.pc = "respond",
                      !.force_reindex = api[r].force_reindex,
                      !.status = status]

\* The thread of request r once the handler has its whole answer.
QueryEnded(r, resp, sources) ==
    [NoRequest EXCEPT !.kind = "query", !.pc = "respond",
                      !.show_sources = api[r].show_sources,
                      !.response = resp, !.sources = sources, !.status = 200]

\* The chunks the thread of request r holds after process_documents.
ApiChunks(r) == process_documents(api[r].documents, chunk_size, chunk_overlap).chunks

\* POST /index is accepted; index_documents reads the count (lines 111-116).
ApiIndexBegin(r) ==
    /\ FirstFree(r)
    /\ \E force_reindex, statsFail \in BOOLEAN :
         LET stats == get_collection_stats(collection, live, statsFail)
         IN  api' = [api EXCEPT ![r] =
                        [NoRequest EXCEPT
                            !.kind = "index",
                            !.force_reindex = force_reindex,
                            !.pc = IF stats.total_documents > 0 /\ ~force_reindex
                                   THEN "respond"
                                   ELSE IF force_reindex THEN "clear" ELSE "load",
                            !.status = 200]]
    /\ UNCHANGED <<llm, collection, live, op, before, calls, relevant_docs,
                   response, prompt, chunkerVars>>

\* index_documents, lines 118-120: clear_collection.
ApiIndexClear(r) ==
    /\ api[r].kind = "index"
    /\ api[r].pc = "clear"
    /\ \E outcome \in {"ok", "delete_failed"} :
         LET cleared == clear_collection(collection, live, outcome)
         IN  /\ collection' = cleared.collection
             /\ live' = cleared.live
    /\ api' = [api EXCEPT ![r].pc = "load"]
    /\ UNCHANGED <<llm, op, before, calls, relevant_docs, response, prompt,
                   chunkerVars>>

\* index_documents, lines 122-137: load, chunk and embed.
ApiIndexLoad(r) ==
    /\ api[r].kind = "index"
    /\ api[r].pc = "load"
    /\ \E documents \in Corpora, embedFail \in BOOLEAN :
         api' = [api EXCEPT ![r] =
                    IF documents = << >> THEN IndexEnded(r, 200)
                    ELSE [@ EXCEPT !.documents = documents,
                                   !.embed_failed = embedFail,
                                   !.pc = "add"]]
    /\ UNCHANGED <<llm, collection, live, op, before, calls, relevant_docs,
                   response, prompt, chunkerVars>>

\* add_documents, lines 90-98: one collection.add; an exception leaves
\* index_documents and the handler answers 500.
ApiIndexAddBatch(r) ==
    /\ api[r].kind = "index"
    /\ api[r].pc = "add"
    /\ \E addFail \in BOOLEAN :
         LET i == api[r].next
             chunkList == ApiChunks(r)
             embeddings == generate_embeddings_batch(EntryDocuments(chunkList),
                                                     api[r].embed_failed)
             n == Len(chunkList)
             end_idx == IF i + BatchSize < n THEN i + BatchSize ELSE n
             added == CollectionAdd(collection,
                                    ListSlice(EntryIds(chunkList), i, end_idx),
                                    ListSlice(EntryDocuments(chunkList), i, end_idx),
                                    ListSlice(EntryMetadatas(chunkList), i, end_idx),
                                    ListSlice(embeddings, i, end_idx))
         IN  IF ~live \/ addFail \/ added.raised
             THEN /\ api' = [api EXCEPT ![r] = IndexEnded(r, 500)]
                  /\ UNCHANGED collection
             ELSE /\ collection' = added.collection
                  /\ api' = [api EXCEPT ![r] =
                                 IF i + BatchSize >= n THEN IndexEnded(r, 200)
                                 ELSE [@ EXCEPT !.next = i + BatchSize]]
    /\ UNCHANGED <<llm, live, op, before, calls, relevant_docs, response,
                   prompt, chunkerVars>>

\* POST /query is accepted; query() reads the count (lines 165-168).
ApiQueryBegin(r) ==
    /\ FirstFree(r)
    /\ \E n_results \in {1, MaxResults}, show_sources, statsFail \in BOOLEAN :
         LET stats == get_collection_stats(collection, live, statsFail)
         IN  api' = [api EXCEPT ![r] =
                        [NoRequest EXCEPT
                            !.kind = "query",
                            !.n_results = n_results,
                            !.show_sources = show_sources,
                            !.response = IF stats.total_documents = 0
                                         THEN <<NOT_INDEXED>> ELSE << >>,
                            !.pc = IF stats.total_documents # 0 THEN "search"
                                   ELSE IF show_sources THEN "sources"
                                   ELSE "respond",
                            !.status = 200]]
    /\ UNCHANGED <<llm, collection, live, op, before, calls, relevant_docs,
                   response, prompt, chunkerVars>>

\* query(), lines 173-216 with show_sources=False: search, then the answer.
ApiQuerySearch(r) ==
    /\ api[r].kind = "query"
    /\ api[r].pc = "search"
    /\ \E ranking \in Rankings(collection, api[r].n_results) :
         \E question \in Questions, embedFail, queryFail, genFail \in BOOLEAN :
           LET answered == QueryRetrieve(llm, collection, live, question, FALSE,
                                         embedFail, ranking, queryFail, genFail,
                                         NoCalls)
           IN  api' = [api EXCEPT ![r] =
                          IF api[r].show_sources
                          THEN [@ EXCEPT !.response = answered.response,
                                         !.pc = "sources"]
                          ELSE QueryEnded(r, answered.response, 0)]
    /\ UNCHANGED <<llm, collection, live, op, before, calls, relevant_docs,
                   response, prompt, chunkerVars>>

\* The /query handler, lines 123-134: a second search for the sources.
ApiQuerySources(r) ==
    /\ api[r].kind = "query"
    /\ api[r].pc = "sources"
    /\ \E ranking \in Rankings(collection, api[r].n_results) :
         \E question \in Questions, embedFail, queryFail \in BOOLEAN :
           LET docs == search(collection, live,
                              generate_embedding(question, embedFail),
                              ranking, queryFail)
           IN  api' = [api EXCEPT ![r] = QueryEnded(r, api[r].response, Len(docs))]
    /\ UNCHANGED <<llm, collection, live, op, before, calls, relevant_docs,
                   response, prompt, chunkerVars>>

\* The handler returns its JSON answer and the thread is free again.
ApiRespond(r) ==
    /\ api[r].kind # "none"
    /\ api[r].pc = "respond"
    /\ api' = [api EXCEPT ![r] = NoRequest]
    /\ UNCHANGED <<llm, collection, live, op, before, calls, relevant_docs,
                   response, prompt, chunkerVars>>

NextAPI ==
    \E r \in Requests :
        \/ ApiIndexBegin(r)
        \/ ApiIndexClear(r)
        \/ ApiIndexLoad(r)
        \/ ApiIndexAddBatch(r)
        \/ ApiQueryBegin(r)
        \/ ApiQuerySearch(r)
        \/ ApiQuerySources(r)
        \/ ApiRespond(r)

SpecAPI == InitAPI /\ [][NextAPI]_vars

-----------------------------------------------------------------------------
(***************************************************************************)
(* Properties.                                                             *)
(***************************************************************************)

\* The words of s: its maximal runs of non-whitespace, in order.
RECURSIVE SplitWords(_, _, _)
SplitWords(s, k, cur) ==
    IF k > Len(s) THEN (IF cur = << >> THEN << >> ELSE <<cur>>)
    ELSE IF s[k] \in Whitespace
         THEN (IF cur = << >> THEN SplitWords(s, k + 1, << >>)
               ELSE <<cur>> \o SplitWords(s, k + 1, << >>))
         ELSE SplitWords(s, k + 1, Append(cur, s[k]))

RECURSIVE JoinWords(_)
JoinWords(ws) ==
    IF ws = << >> THEN << >>
    ELSE IF Len(ws) = 1 THEN ws[1]
    ELSE ws[1] \o <<" ">> \o JoinWords(Tail(ws))

\* s with every run of whitespace collapsed to one space and both ends
\* trimmed: its words joined by single spaces.
Normalised(s) == JoinWords(SplitWords(s, 1, << >>))

\* C1: a text whose whitespace-normalised length is at most chunk_size gives
\* exactly one chunk, with chunk_index 0 and the normalised text as its text.
C1_OneChunkWhenShort ==
    (pc \in {"loop", "done"} /\ Len(Normalised(raw)) <= chunk_size) =>
        /\ pc = "done"
        /\ Len(chunks) = 1
        /\ chunks[1].chunk_index = 0
        /\ chunks[1].text = Normalised(raw)

C1_Witness ==
    /\ pc = "done"
    /\ Len(chunks) = 1
    /\ Len(chunks[1].text) >= 3
    /\ " " \in Range(chunks[1].text)
    /\ Len(raw) > Len(chunks[1].text) + 2
    /\ raw[1] \in Whitespace

\* The characters of s that are not spaces.
Letters(s) == SelectSeq(s, LAMBDA c : c # " ")

\* For chunk k, the part of its slice that lies beyond the end of the
\* slice of chunk k - 1.
BeyondPrevious(k) ==
    LET prev_end == IF k = 1 THEN 0 ELSE spans[k - 1][2]
        from == IF spans[k][1] > prev_end THEN spans[k][1] ELSE prev_end
    IN  Slice(text, from, spans[k][2])

RECURSIVE ConcatBeyond(_)
ConcatBeyond(k) ==
    IF k > Len(spans) THEN << >> ELSE BeyondPrevious(k) \o ConcatBeyond(k + 1)

\* C2: for a cleaned text longer than chunk_size the chunks cover it without
\* a gap: every chunk's slice begins at or before the end of the previous
\* one (or only trimmed spaces lie between the two), every character that is
\* not a space lies in some chunk's slice, and the parts beyond the previous
\* chunk's end, concatenated, give the text up to spaces.
C2_ChunksCoverText ==
    (pc = "done" /\ Len(text) > chunk_size /\ chunk_overlap < chunk_size) =>
        /\ \A k \in 2 .. Len(spans) :
               \/ spans[k][1] <= spans[k - 1][2]
               \/ Letters(Slice(text, spans[k - 1][2], spans[k][1])) = << >>
        /\ \A i \in 1 .. Len(text) :
               text[i] # " " =>
                   \E k \in 1 .. Len(spans) :
                       /\ NormIdx(spans[k][1], Len(text)) < i
                       /\ i <= NormIdx(spans[k][2], Len(text))
        /\ Letters(ConcatBeyond(1)) = Letters(text)

\* C3: no TextProcessor built with chunk_overlap >= chunk_size ever runs
\* create_chunks.
C3_OverlapBelowSizeWhenChunking ==
    pc \in {"loop", "done"} => chunk_overlap < chunk_size

\* C4: from one pass of the window loop to the next the window start
\* strictly increases.
C4_StartStrictlyIncreases ==
    [][(pc = "loop" /\ pc' = "loop" /\ chunk_overlap < chunk_size)
           => start' > start]_vars

\* C5: index_documents(force_reindex = false) on an Index that holds an
\* entry returns having called neither the extractor, the chunker, the
\* Embedding Service, Index.add nor Index.clear, and leaves every entry as
\* it was.
C5_SkipLeavesIndexUntouched ==
    (op.name = "index_documents" /\ ~op.force_reindex /\ Count(before) > 0) =>
        /\ op.outcome = "returned"
        /\ calls.load = 0
        /\ calls.chunker = 0
        /\ calls.embed_batch = 0
        /\ calls.add = 0
        /\ calls.clear = 0
        /\ collection = before

\* C6: when index_documents(force_reindex = true) has returned, count() is
\* the number of chunks of the documents it loaded.
C6_ForcedReindexCount ==
    (op.name = "index_documents" /\ op.force_reindex /\ op.outcome = "returned") =>
        Count(collection) =
            Len(process_documents(op.documents, chunk_size, chunk_overlap).chunks)

\* C7: query() on an Index with count() = 0 returns the not-indexed message
\* and calls neither the Embedding Service, Index.query nor the Generation
\* Service.
C7_EmptyIndexQuery ==
    (op.name = "query" /\ Count(before) = 0) =>
        /\ response = <<NOT_INDEXED>>
        /\ calls.embed = 0
        /\ calls.search = 0
        /\ calls.generate = 0

C7_Witness ==
    /\ op.name = "query"
    /\ Count(before) = 0
    /\ op.show_sources
    /\ ~op.stats_failed
    /\ response = <<NOT_INDEXED>>

\* C8: when the Index holds entries and the search of a query() gave no
\* hit, query() returns the no-relevant-match message, builds no prompt and
\* does not call the Generation Service.
C8_NoHitsNoGeneration ==
    (op.name = "query" /\ Count(before) > 0 /\ calls.search = 1
        /\ relevant_docs = << >>) =>
        /\ response = <<NO_MATCH>>
        /\ calls.prompt = 0
        /\ calls.generate = 0

C8_Witness ==
    /\ op.name = "query"
    /\ Count(before) > 0
    /\ calls.search = 1
    /\ relevant_docs = << >>
    /\ response = <<NO_MATCH>>

\* C9: when the generation call of a query() fails, query() returns the
\* apology and nothing else, whatever show_sources is.
C9_FallbackReturnedAlone ==
    (op.name = "query" /\ op.gen_failed) => response = <<APOLOGY>>

\* The position of the first hit from file f.
FirstHit(f) ==
    CHOOSE k \in DOMAIN relevant_docs :
        /\ relevant_docs[k].metadata.filename = f
        /\ \A m \in 1 .. (k - 1) : relevant_docs[m].metadata.filename # f

\* C10: the source list query() appends names every file of the hits once,
\* in the order of each file's first hit, and no other file.
C10_SourcesFirstSeen ==
    (op.name = "query" /\ op.show_sources /\ calls.generate = 1) =>
        LET lines == SubSeq(response, 3, Len(response))
            files == {relevant_docs[k].metadata.filename : k \in DOMAIN relevant_docs}
        IN  /\ response[2] = SOURCES_HEADER
            /\ \A i \in DOMAIN lines : lines[i] = SourceLine(lines[i][2])
            /\ {lines[i][2] : i \in DOMAIN lines} = files
            /\ \A i, j \in DOMAIN lines : lines[i][2] = lines[j][2] => i = j
            /\ \A i, j \in DOMAIN lines :
                   i < j => FirstHit(lines[i][2]) < FirstHit(lines[j][2])

C10_Witness ==
    /\ op.name = "query"
    /\ op.show_sources
    /\ calls.generate = 1
    /\ [k \in DOMAIN relevant_docs |-> relevant_docs[k].metadata.filename]
           = <<"a.pdf", "b.pdf", "a.pdf">>
    /\ response = <<GENERATED, SOURCES_HEADER, SourceLine("a.pdf"), SourceLine("b.pdf")>>

\* The texts of the hits that come from file f, in the order retrieved,
\* from hit k on.
RECURSIVE TextsOfFile(_, _)
TextsOfFile(f, k) ==
    IF k > Len(relevant_docs) THEN << >>
    ELSE (IF relevant_docs[k].metadata.filename = f
          THEN <<relevant_docs[k].text>> ELSE << >>) \o TextsOfFile(f, k + 1)

\* The concatenated chunk text of file f's group.
GroupText(f) == Join(TextsOfFile(f, 1), PARAGRAPH)

HitFiles == {relevant_docs[k].metadata.filename : k \in DOMAIN relevant_docs}

Min(a, b) == IF a < b THEN a ELSE b

\* The sum over the files in S of min(group length, budget).
RECURSIVE BudgetSum(_)
BudgetSum(S) ==
    IF S = {} THEN 0
    ELSE LET f == CHOOSE f \in S : TRUE
         IN  Min(Len(GroupText(f)), ContextBudget) + BudgetSum(S \ {f})

\* The sum over the files in S of the characters a group adds around its
\* text: its header line and, at most, one ellipsis marker.
RECURSIVE OverheadSum(_)
OverheadSum(S) ==
    IF S = {} THEN 0
    ELSE LET f == CHOOSE f \in S : TRUE
         IN  CharLen(GroupHeader(f)) + Len(ELLIPSIS) + OverheadSum(S \ {f})

\* Every group of the context holds its file's text whole when that is
\* within the budget, and otherwise its first ContextBudget characters
\* followed by the ellipsis marker.
GroupsCutToBudget ==
    \A g \in DOMAIN prompt.parts :
        LET whole == GroupText(prompt.parts[g].filename)
        IN  prompt.parts[g].body =
                IF Len(whole) > ContextBudget
                THEN SubSeq(whole, 1, ContextBudget) \o ELLIPSIS
                ELSE whole

\* C11 as stated: in the context GPT4AllLLM assembles, a group over the
\* budget is its first ContextBudget characters plus the ellipsis marker, a
\* group within the budget is whole, and the context is no longer than the
\* sum over the files of min(group length, budget).
C11_ContextWithinBudgetSum ==
    (op.name = "query" /\ prompt.template = "GPT4AllLLM") =>
        /\ GroupsCutToBudget
        /\ CharLen(prompt.context) <= BudgetSum(HitFiles)

\* C11 amended: the groups are cut as stated, and the context is no longer
\* than the sum over the files of min(group length, budget) plus, for each
\* file, its header line and one ellipsis marker, plus the separators
\* between the groups.
C11_ContextWithinBudgetPlusOverhead ==
    (op.name = "query" /\ prompt.template = "GPT4AllLLM") =>
        /\ GroupsCutToBudget
        /\ CharLen(prompt.context) <=
               BudgetSum(HitFiles) + OverheadSum(HitFiles)
               + Len(PARAGRAPH) * (Cardinality(HitFiles) - 1)

C11_Witness ==
    /\ op.name = "query"
    /\ prompt.template = "GPT4AllLLM"
    /\ Len(prompt.parts) = 2
    /\ \E g \in DOMAIN prompt.parts :
           /\ Len(GroupText(prompt.parts[g].filename)) > ContextBudget
           /\ Len(prompt.parts[g].body) = ContextBudget + 3
           /\ SubSeq(prompt.parts[g].body, ContextBudget + 1, ContextBudget + 3) = ELLIPSIS
    /\ \E g \in DOMAIN prompt.parts :
           /\ prompt.parts[g].body = <<"g", " ", "h">>
           /\ GroupText(prompt.parts[g].filename) = <<"g", " ", "h">>

\* C12: the context GPT4AllLLM assembles has one group for each file of the
\* hits and no other, the groups stand in the order of each file's first
\* hit, and a group's text starts with its file's chunk texts in the order
\* they were retrieved.
C12_GroupsInFirstSeenOrder ==
    (op.name = "query" /\ prompt.template = "GPT4AllLLM") =>
        /\ {prompt.parts[g].filename : g \in DOMAIN prompt.parts} = HitFiles
        /\ \A g, h \in DOMAIN prompt.parts :
               prompt.parts[g].filename = prompt.parts[h].filename => g = h
        /\ \A g, h \in DOMAIN prompt.parts :
               g < h => FirstHit(prompt.parts[g].filename)
                            < FirstHit(prompt.parts[h].filename)
        /\ \A g \in DOMAIN prompt.parts :
               LET whole == GroupText(prompt.parts[g].filename)
                   n == Min(Len(whole), ContextBudget)
               IN  /\ Len(prompt.parts[g].body) >= n
                   /\ SubSeq(prompt.parts[g].body, 1, n) = SubSeq(whole, 1, n)

C12_Witness ==
    /\ op.name = "query"
    /\ prompt.template = "GPT4AllLLM"
    /\ [k \in DOMAIN relevant_docs |-> relevant_docs[k].metadata.chunk_index]
           = <<1, 0, 0>>
    /\ [k \in DOMAIN relevant_docs |-> relevant_docs[k].metadata.filename]
           = <<"a.pdf", "b.pdf", "a.pdf">>
    /\ [g \in DOMAIN prompt.parts |-> prompt.parts[g].filename] = <<"a.pdf", "b.pdf">>
    /\ SubSeq(prompt.parts[1].body, 1, 6) = <<"d", "e", "f", "\n", "\n", "a">>

\* C13: the distances of the hits search returned are non-decreasing along
\* the sequence, whatever order the Index handed them back in.
C13_DistancesNonDecreasing ==
    op.name = "query" =>
        \A i, j \in DOMAIN relevant_docs :
            i < j => relevant_docs[i].distance <= relevant_docs[j].distance

\* C14: a query() whose Index query failed, for a question whose embedding
\* was computed, does not answer with the no-relevant-match message.
C14_FailureIsNotNoMatch ==
    (op.name = "query" /\ op.search_failed) => response # <<NO_MATCH>>

C16_NoDocumentsNoWork ==
    (op.name = "index_documents" /\ calls.load = 1 /\ op.documents = << >>) =>
        /\ op.outcome = "returned"
        /\ calls.chunker = 0
        /\ calls.embed_batch = 0
        /\ calls.add = 0

C16_Witness ==
    /\ op.name = "index_documents"
    /\ calls.load = 1
    /\ op.documents = << >>
    /\ op.outcome = "returned"
    /\ ~op.force_reindex
    /\ collection = << >>

\* The entry that pairs the i-th chunk of the documents of the last
\* index_documents call with the vector of that chunk's text.
EntryOfChunk(i) ==
    LET c == process_documents(op.documents, chunk_size, chunk_overlap).chunks[i]
    IN  [document |-> c.text,
         metadata |-> [filename |-> c.metadata.filename, chunk_index |-> c.chunk_index],
         embedding |-> Embedding(c.text)]

\* C17: every entry an index_documents call wrote (every entry that is new
\* or differs from what the Index held when the call began) is, under id
\* doc_i, the text and metadata of chunk i of the ordered chunk sequence
\* with the vector of chunk i.
C17_EntriesAlignedWithChunks ==
    (op.name = "index_documents" /\ calls.add > 0) =>
        \A id \in DOMAIN collection :
            (id \notin DOMAIN before \/ collection[id] # before[id]) =>
                /\ id[2] + 1 \in 1 .. Len(process_documents(op.documents, chunk_size,
                                                            chunk_overlap).chunks)
                /\ collection[id] = EntryOfChunk(id[2] + 1)

C17_Witness ==
    /\ op.name = "index_documents"
    /\ op.outcome = "returned"
    /\ calls.add = 2
    /\ before = << >>
    /\ Count(collection) = 3
    /\ collection[DocId(2)].metadata.filename # collection[DocId(0)].metadata.filename
    /\ collection[DocId(2)].embedding = Embedding(collection[DocId(2)].document)

\* C18: no index_documents call hands Index.add an id the Index already
\* holds.
C18_AddNeverMeetsExistingId ==
    op.name = "index_documents" => ~op.id_clash

\* C20: the Index changes only in a step of index_documents, and then only
\* from EMPTY to INDEXED by a run that returned, or from INDEXED to INDEXED
\* through the clear of a forced run; a non-forced run on an INDEXED Index,
\* query() and get_stats() leave it as it was, and no entry disappears
\* except in a forced run.
C20_IndexStateMachine ==
    [][/\ op'.name \in {"query", "get_stats"} => collection' = collection
       /\ collection' # collection =>
              /\ op'.name = "index_documents"
              /\ \/ /\ Count(collection) = 0
                    /\ Count(collection') > 0
                    /\ op'.outcome = "returned"
                 \/ /\ Count(collection) > 0
                    /\ op'.force_reindex
                    /\ Count(collection') > 0
                    /\ op'.outcome = "returned"
       /\ DOMAIN collection \ DOMAIN collection' # {} =>
              op'.name = "index_documents" /\ op'.force_reindex]_vars

\* The thread of request r is inside index_documents after its clear and
\* before the end of its rebuild.
Rebuilding(r) ==
    /\ api[r].kind = "index"
    /\ api[r].force_reindex
    /\ api[r].pc \in {"load", "add"}

\* C19: the API server's requests exclude one another on the Index: no
\* /query request is being handled while a forced /index request is between
\* its clear and the end of its rebuild, and no two /index requests are
\* being handled at once.
C19_RequestsMutuallyExclusive ==
    \A q, i \in Requests :
        /\ ~(api[q].kind = "query" /\ Rebuilding(i))
        /\ (api[q].kind = "index" /\ api[i].kind = "index") => q = i

\* The spaces of the cleaned text that lie after the window start s and
\* before the window's right edge s + chunk_size.
SpacesInWindow(s) ==
    {k \in 0 .. (Len(text) - 1) :
        /\ s < k
        /\ k < s + chunk_size
        /\ text[k + 1] = " "}

Max(S) == CHOOSE k \in S : \A m \in S : m <= k

\* C21: after a window whose right edge was snapped back to a space, the
\* next window start is the previous start + chunk_size - chunk_overlap: it
\* is computed from the unsnapped end of the window, not from the snapped
\* one.
C21_NextStartFromUnsnappedEnd ==
    [][(/\ pc = "loop"
        /\ iter' = iter + 1
        /\ chunk_overlap < chunk_size
        /\ start >= 0
        /\ start + chunk_size < Len(text)
        /\ SpacesInWindow(start) # {})
           => start' = start + chunk_size - chunk_overlap]_vars

\* C22: a chunk cut by a window whose right edge start + chunk_size falls
\* before the end of the cleaned text ends at the last space after the
\* window start and before that edge when there is one, and at the raw cut
\* start + chunk_size when there is none; a chunk cut by a window whose edge
\* reaches the end of the text ends at the raw cut.
C22_SnapToLastSpace ==
    [][(/\ pc = "loop"
        /\ chunk_overlap < chunk_size
        /\ Len(spans') = Len(spans) + 1)
           => LET end == spans'[Len(spans')][2]
                  edge == start + chunk_size
              IN  IF edge < Len(text) /\ SpacesInWindow(start) # {}
                  THEN end = Max(SpacesInWindow(start))
                  ELSE end = edge]_vars

\* The position, among the documents of the last index_documents call, of
\* the document named f.
DocPos(f) == CHOOSE p \in DOMAIN op.documents : op.documents[p].filename = f

\* C23: the chunks process_documents returns stand in document order and,
\* within one document, carry the chunk_index values 0, 1, 2, ... in that
\* order; each carries the filename and path of its own document; and the
\* n-th chunk of the whole sequence (n from 0) is written to the Index under
\* the id doc_n.
C23_ChunkOrderAndIds ==
    (op.name = "index_documents" /\ calls.chunker = 1 /\ op.outcome # "hung") =>
        LET cs == process_documents(op.documents, chunk_size, chunk_overlap).chunks
        IN  /\ \A k \in DOMAIN cs :
                   \E p \in DOMAIN op.documents :
                       /\ cs[k].metadata.filename = op.documents[p].filename
                       /\ cs[k].metadata.path = op.documents[p].path
            /\ \A k, l \in DOMAIN cs :
                   k < l => DocPos(cs[k].metadata.filename)
                                <= DocPos(cs[l].metadata.filename)
            /\ \A k \in DOMAIN cs :
                   cs[k].chunk_index =
                       Cardinality({j \in 1 .. (k - 1) :
                                       cs[j].metadata.filename = cs[k].metadata.filename})
            /\ (op.outcome = "returned" /\ ~op.id_clash) =>
                   \A n \in 0 .. (Len(cs) - 1) :
                       /\ DocId(n) \in DOMAIN collection
                       /\ collection[DocId(n)].document = cs[n + 1].text
                       /\ collection[DocId(n)].metadata =
                              [filename |-> cs[n + 1].metadata.filename,
                               chunk_index |-> cs[n + 1].chunk_index]

C23_Witness ==
    /\ op.name = "index_documents"
    /\ op.outcome = "returned"
    /\ ~op.id_clash
    /\ [p \in DOMAIN op.documents |-> op.documents[p].filename] = <<"b.pdf", "a.pdf">>
    /\ Count(collection) = 3
    /\ collection[DocId(0)].metadata = [filename |-> "b.pdf", chunk_index |-> 0]
    /\ collection[DocId(1)].metadata = [filename |-> "a.pdf", chunk_index |-> 0]
    /\ collection[DocId(2)].metadata = [filename |-> "a.pdf", chunk_index |-> 1]

\* The generation backends in the order __init__ prefers them, each with
\* whether the arguments of the last construction enable it and whether its
\* constructor succeeds.
Candidates ==
    <<[name |-> "GPT4AllLLM",
       enabled |-> ~op.use_simple_llm /\ op.use_gpt4all,
       succeeds |-> ~op.gpt4all_raises],
      [name |-> "LocalLLM",
       enabled |-> ~op.use_simple_llm /\ op.model_found,
       succeeds |-> ~op.local_raises],
      [name |-> "SimpleLLM", enabled |-> TRUE, succeeds |-> TRUE]>>

\* The first enabled candidate whose constructor succeeds.
FirstUsable ==
    LET usable == {i \in DOMAIN Candidates :
                      Candidates[i].enabled /\ Candidates[i].succeeds}
    IN  Candidates[CHOOSE i \in usable : \A j \in usable : i <= j].name

\* C26: constructing the OracleSystem binds one backend, which is the first
\* of the enabled candidates GPT4AllLLM, LocalLLM, SimpleLLM whose
\* constructor succeeds, whatever the flags and whichever constructors
\* raise; and once a backend is bound no call changes it.
C26_FirstUsableBackendBound ==
    [][/\ op'.name = "__init__" =>
              /\ llm' \in {"GPT4AllLLM", "LocalLLM", "SimpleLLM"}
              /\ llm' = FirstUsable'
       /\ llm # Unbound => llm' = llm]_vars

C26_Witness ==
    /\ op.name = "__init__"
    /\ op.use_gpt4all
    /\ op.gpt4all_raises
    /\ op.model_found
    /\ ~op.local_raises
    /\ ~op.use_simple_llm
    /\ llm = "LocalLLM"

\* C24: in a forced reindex Index.add is invoked only on an Index that holds
\* none of the entries it held when the call began, also when the clear
\* failed: whenever a forced index_documents call reached Index.add, what
\* its clear left of the earlier entries is nothing.
C24_AddOnlyAfterFullClear ==
    (op.name = "index_documents" /\ op.force_reindex /\ calls.add > 0) =>
        clear_collection(before, TRUE, op.clear).collection = << >>

\* C25: a query() call invokes the Generation Service at most once, exactly
\* once when the Index holds entries and the retrieval returned a hit, and
\* exactly once when that invocation failed.
C25_SingleGenerationAttempt ==
    op.name = "query" =>
        /\ calls.generate <= 1
        /\ (Count(before) > 0 /\ relevant_docs # << >>) => calls.generate = 1
        /\ op.gen_failed => calls.generate = 1

C25_Witness ==
    /\ op.name = "query"
    /\ Count(before) > 0
    /\ Len(relevant_docs) = 2
    /\ op.gen_failed
    /\ calls.generate = 1
    /\ response[1] = APOLOGY

\* C27: every chunk create_chunks returns, and every chunk it has gathered
\* while chunk_overlap < chunk_size, has a text of at most chunk_size
\* characters, and every such chunk of a cleaned text longer than chunk_size
\* has a text that is not empty and is a contiguous slice of the cleaned
\* text.
C27_ChunksBoundedSlices ==
    (pc = "done" \/ (pc = "loop" /\ chunk_overlap < chunk_size)) =>
        \A k \in DOMAIN chunks :
            /\ Len(chunks[k].text) <= chunk_size
            /\ Len(text) > chunk_size =>
                   /\ chunks[k].text # << >>
                   /\ \E i \in 1 .. Len(text) :
                          /\ i + Len(chunks[k].text) - 1 <= Len(text)
                          /\ SubSeq(text, i, i + Len(chunks[k].text) - 1)
                                 = chunks[k].text

C27_Witness ==
    /\ pc = "done"
    /\ Len(text) > chunk_size
    /\ Len(chunks) >= 3
    /\ \E k \in DOMAIN chunks : Len(chunks[k].text) = chunk_size
    /\ \E k \in DOMAIN spans :
           /\ spans[k][2] < spans[k][1] + chunk_size
           /\ spans[k][2] < Len(text)
           /\ text[spans[k][2] + 1] = " "

\* C28: every chunk after the first holds a character of the cleaned text
\* that lies beyond the end of the previous chunk's slice, that is, its
\* slice ends after the previous chunk's slice ends; so no chunk follows one
\* whose slice reached the end of the text.
C28_EveryChunkAddsText ==
    (pc \in {"loop", "done"} /\ chunk_overlap < chunk_size) =>
        \A k \in 2 .. Len(spans) :
            NormIdx(spans[k][2], Len(text)) > NormIdx(spans[k - 1][2], Len(text))

\* C29: an index_documents call that ends without completing the rebuild
\* (it found no documents, or it raised, as it does on an embedding failure
\* and on a failed write of a batch) leaves the Index holding exactly the
\* entries it held when the call began.
C29_IndexingAllOrNothing ==
    (/\ op.name = "index_documents"
     /\ \/ op.outcome = "raised"
        \/ calls.load = 1 /\ op.documents = << >>) =>
        collection = before

\* The characters of the context that are taken from file f: the bodies of
\* the parts that name f.
RECURSIVE TakenFromFile(_, _)
TakenFromFile(f, g) ==
    IF g > Len(prompt.parts) THEN 0
    ELSE (IF prompt.parts[g].filename = f THEN Len(prompt.parts[g].body) ELSE 0)
         + TakenFromFile(f, g + 1)

\* C30: whichever backend is bound, the context it builds names each file
\* of the hits in one group only, and the text it takes from one file is at
\* most the budget (plus the ellipsis marker of a cut).
C30_SameGroupingEveryBackend ==
    (op.name = "query" /\ calls.prompt = 1) =>
        /\ \A g, h \in DOMAIN prompt.parts :
               prompt.parts[g].filename = prompt.parts[h].filename => g = h
        /\ \A f \in HitFiles :
               TakenFromFile(f, 1) <= ContextBudget + Len(ELLIPSIS)

=============================================================================
